---- MODULE Spec2Model ----
(***************************************************************************)
(* Payment and refund reconciliation core of the rental backend:           *)
(* PaymentService (payments.service.js), the webhook controller            *)
(* (payments.controller.js) and RefundService (email.service.js).          *)
(*                                                                         *)
(* One booking (lease) is modelled together with its StripePayment rows,   *)
(* its RefundRequest rows and the gateway's view of every PaymentIntent    *)
(* issued for it.  Every handler is a sequence of storage reads, storage   *)
(* writes and gateway calls (its awaits).  Spec runs each handler to       *)
(* completion in one action; SpecConc interleaves two requests at every    *)
(* await.  A frame exists only while its request is in flight.             *)
(***************************************************************************)
EXTENDS Integers, Sequences, FiniteSets, TLC

VARIABLES pay, lease, req, gw, now, fr, calls

vars == <<pay, lease, req, gw, now, fr, calls>>

(* ------------------------------ bounds --------------------------------- *)

MaxIntents == 2
MaxRequests == 2
\* Requests begun in an interleaved run.
MaxCalls == 2
\* Consecutive deliveries of one event.
MaxDeliveries == 3

(* ------------------------- program constants --------------------------- *)

SecondsPerHour == 3600
HoursPerDay == 24
AutoRefundHours == 4
RefundWindowDays == 7

(* ------------------------------ domains -------------------------------- *)

Tenant == "tenant"
Landlord == "landlord"
Other == "other"
Users == {Tenant, Landlord}

TheBooking == "lease1"
NoBooking == "unknown"
BookingArgs == {TheBooking}

Procs == {1, 2}
Intents == 1 .. MaxIntents
NoRow == 0

Hours(n) == n * SecondsPerHour

Days(n) == n * HoursPerDay * SecondsPerHour

\* Instants (seconds) at which the clock is observed.  TimePoints separates
\* a payment inside the auto-refund window from one outside it; PolicyTimes
\* holds every age around the refund policy's thresholds, counted from a
\* payment completed at 0.
TimePoints == {0, Hours(AutoRefundHours)}

PolicyTimes ==
  {0, Hours(1), Hours(AutoRefundHours) - 1, Hours(AutoRefundHours),
   Hours(10), Days(RefundWindowDays) - 1, Days(RefundWindowDays),
   Days(RefundWindowDays) + 1, Days(RefundWindowDays + 1) - 1,
   Days(RefundWindowDays + 1), Days(RefundWindowDays + 2)}

EventTypes ==
  {"payment_intent.succeeded", "payment_intent.processing",
   "payment_intent.payment_failed", "payment_intent.canceled",
   "payment_intent.requires_action", "charge.refunded", "customer.created"}

\* Events the gateway can have emitted for an intent, by the intent's state
\* at the gateway.  "open" covers requires_payment_method, requires_action
\* and processing; deliveries may be duplicated and arrive in any order.
OpenEvents ==
  {"payment_intent.processing", "payment_intent.payment_failed",
   "payment_intent.requires_action", "customer.created"}

EmittedEvents(g) ==
  CASE g = "open" -> OpenEvents
    [] g = "succeeded" -> OpenEvents \cup {"payment_intent.succeeded"}
    [] g = "canceled" -> OpenEvents \cup {"payment_intent.canceled"}
    [] g = "refunded" ->
         OpenEvents \cup {"payment_intent.succeeded", "charge.refunded"}
    [] OTHER -> {}

(* ------------------------------ storage -------------------------------- *)

world == [pay |-> pay, lease |-> lease, req |-> req, gw |-> gw, now |-> now]

Rows(t) == 1 .. Len(t)

\* The result of prisma.<model>.findFirst without orderBy over the matching
\* row ids m: any one of them, or null.
FindFirst(m) == IF m = {} THEN {NoRow} ELSE m

\* prisma.<model>.update({where: {id}, data}): unconditional on the row's
\* current contents.
UpdateRow(t, id, data) ==
  [t EXCEPT ![id] = [f \in DOMAIN t[id] |->
                       IF f \in DOMAIN data THEN data[f] ELSE t[id][f]]]

(* ------------------------------- frames -------------------------------- *)

\* The activation record of one request: its arguments, what it has read so
\* far, where it stands, its HTTP status once it has returned (0 before),
\* and what it has done to storage and to the gateway.  fault is the number
\* of its storage writes and gateway calls that may still throw; failed
\* tells that one has.
NewFrame ==
  [op |-> "none", pc |-> "start", code |-> 0,
   user |-> Other, bid |-> NoBooking, intent |-> 0, rid |-> NoRow,
   approve |-> FALSE, evt |-> "none", signed |-> FALSE,
   pid |-> NoRow, pst |-> "none", pint |-> 0, bst |-> "none", nint |-> 0,
   age |-> -1, decision |-> "none",
   payW |-> 0, leaseW |-> 0, reqW |-> 0, refunds |-> 0,
   reads |-> 0, dispatched |-> FALSE, fault |-> 0, failed |-> FALSE]

\* A worker with no request in flight.
IdleFrame == [pc |-> "done"]

Out(w, l) == [w |-> w, l |-> l]

\* The handler returns (or throws) with HTTP status c.
Ret(o, c) == Out(o.w, [o.l EXCEPT !.pc = "done", !.code = c])

\* The handler goes on to its next await.
To(o, p) == Out(o.w, [o.l EXCEPT !.pc = p])

WritePay(w, l, id, data) ==
  Out([w EXCEPT !.pay = UpdateRow(w.pay, id, data)],
      [l EXCEPT !.payW = @ + 1])

WriteLease(w, l, data) ==
  Out([w EXCEPT !.lease = [f \in DOMAIN w.lease |->
                             IF f \in DOMAIN data THEN data[f]
                             ELSE w.lease[f]]],
      [l EXCEPT !.leaseW = @ + 1])

WriteReq(w, l, id, data) ==
  Out([w EXCEPT !.req = UpdateRow(w.req, id, data)],
      [l EXCEPT !.reqW = @ + 1])

\* prisma.refundRequest.create; no row can be added beyond MaxRequests.
CreateReq(w, l, row) ==
  IF Len(w.req) < MaxRequests
    THEN {Out([w EXCEPT !.req = Append(w.req, row)],
              [l EXCEPT !.reqW = @ + 1, !.rid = Len(w.req) + 1])}
    ELSE {}

\* What a handler keeps of the payment row it has read.
Snapshot(w, l, id) ==
  Out(w, [l EXCEPT !.reads = @ + 1,
                   !.pid = id,
                   !.pst = IF id = NoRow THEN "none" ELSE w.pay[id].status,
                   !.pint = IF id = NoRow THEN 0
                            ELSE w.pay[id].paymentIntentId])

ReadByIntent(w, l, i) ==
  {Snapshot(w, l, id) :
     id \in FindFirst({r \in Rows(w.pay) : w.pay[r].paymentIntentId = i})}

ReadByStatus(w, l, b, st) ==
  {Snapshot(w, l, id) :
     id \in FindFirst({r \in Rows(w.pay) :
                         w.pay[r].bookingId = b /\ w.pay[r].status = st})}

\* stripe.refunds.create({payment_intent}): refunds a succeeded charge that
\* has not been refunded, and throws otherwise.
\* A gateway that refunds a charge it has already refunded.
GatewayRefund_Repeats(w, l) ==
  IF l.pint \in Intents /\ w.gw[l.pint] \in {"succeeded", "refunded"}
    THEN Out([w EXCEPT !.gw[l.pint] = "refunded"],
             [l EXCEPT !.refunds = @ + 1])
    ELSE Out(w, [l EXCEPT !.code = 500])

GatewayRefund(w, l) ==
  IF l.pint \in Intents /\ w.gw[l.pint] = "succeeded"
    THEN Out([w EXCEPT !.gw[l.pint] = "refunded"],
             [l EXCEPT !.refunds = @ + 1])
    ELSE Out(w, [l EXCEPT !.code = 500])

(* --------------------------- webhook handlers -------------------------- *)

\* LookUp creating the missing row of an event that matches none.
LookUp_TracksUnknown(w, l, pendingOnly) ==
  {IF o.l.pid # NoRow /\ (pendingOnly => o.l.pst = "pending")
     THEN To(o, "writePay")
   ELSE IF o.l.pid = NoRow
     THEN Ret(Out([o.w EXCEPT !.pay = Append(o.w.pay,
                     [bookingId |-> TheBooking, userId |-> Tenant,
                      paymentIntentId |-> l.intent, status |-> "pending",
                      completedAt |-> -1])],
                  [o.l EXCEPT !.payW = @ + 1]), 200)
   ELSE Ret(o, 200) :
     o \in ReadByIntent(w, l, l.intent)}

\* First await of every event handler: the row lookup.  A handler acts on
\* the row it finds, some only if the row is pending.
LookUp(w, l, pendingOnly) ==
  {IF o.l.pid # NoRow /\ (pendingOnly => o.l.pst = "pending")
     THEN To(o, "writePay") ELSE Ret(o, 200) :
     o \in ReadByIntent(w, l, l.intent)}

\* handlePaymentSuccess without its test of payment.status.
handlePaymentSuccess_AnyStatus(w, l) ==
  CASE l.pc = "start" -> LookUp(w, l, FALSE)
    [] l.pc = "writePay" ->
         {To(WritePay(w, l, l.pid,
                      [status |-> "completed", completedAt |-> w.now]),
             "writeLease")}
    [] l.pc = "writeLease" ->
         {Ret(WriteLease(w, l, [status |-> "APPROVED",
                                paymentStatus |-> "paid"]), 200)}

handlePaymentSuccess(w, l) ==
  CASE l.pc = "start" -> LookUp(w, l, TRUE)
    [] l.pc = "writePay" ->
         {To(WritePay(w, l, l.pid,
                      [status |-> "completed", completedAt |-> w.now]),
             "writeLease")}
    [] l.pc = "writeLease" ->
         {Ret(WriteLease(w, l, [status |-> "APPROVED",
                                paymentStatus |-> "paid"]), 200)}

handlePaymentProcessing(w, l) ==
  CASE l.pc = "start" -> LookUp(w, l, TRUE)
    [] l.pc = "writePay" ->
         {To(WritePay(w, l, l.pid, [status |-> "processing"]), "writeLease")}
    [] l.pc = "writeLease" ->
         {Ret(WriteLease(w, l, [paymentStatus |-> "processing"]), 200)}

handlePaymentFailure(w, l) ==
  CASE l.pc = "start" -> LookUp(w, l, FALSE)
    [] l.pc = "writePay" ->
         {Ret(WritePay(w, l, l.pid, [status |-> "failed"]), 200)}

handlePaymentCanceled(w, l) ==
  CASE l.pc = "start" -> LookUp(w, l, TRUE)
    [] l.pc = "writePay" ->
         {To(WritePay(w, l, l.pid, [status |-> "canceled"]), "writeLease")}
    [] l.pc = "writeLease" ->
         {Ret(WriteLease(w, l, [paymentStatus |-> "canceled"]), 200)}

handlePaymentRequiresAction(w, l) ==
  CASE l.pc = "start" -> LookUp(w, l, TRUE)
    [] l.pc = "writePay" ->
         {Ret(WritePay(w, l, l.pid, [status |-> "requires_action"]), 200)}

handleRefund(w, l) ==
  CASE l.pc = "start" -> LookUp(w, l, FALSE)
    [] l.pc = "writePay" ->
         {To(WritePay(w, l, l.pid, [status |-> "refunded"]), "writeLease")}
    [] l.pc = "writeLease" ->
         {Ret(WriteLease(w, l, [status |-> "REJECTED",
                                paymentStatus |-> "refunded"]), 200)}

\* PaymentService.handleWebhook: the switch on event.type.
handleWebhook(w, l) ==
  CASE l.evt = "payment_intent.succeeded" -> handlePaymentSuccess(w, l)
    [] l.evt = "payment_intent.processing" -> handlePaymentProcessing(w, l)
    [] l.evt = "payment_intent.payment_failed" -> handlePaymentFailure(w, l)
    [] l.evt = "payment_intent.canceled" -> handlePaymentCanceled(w, l)
    [] l.evt = "payment_intent.requires_action" ->
         handlePaymentRequiresAction(w, l)
    [] l.evt = "charge.refunded" -> handleRefund(w, l)
    [] OTHER -> {Ret(Out(w, l), 200)}

\* The webhook endpoint without its signature verification.
webhookEndpoint_NoVerify(w, l) ==
  handleWebhook(w, [l EXCEPT !.dispatched = TRUE])

\* exports.handleWebhook of the controller: a request whose signature is
\* missing or does not verify is answered 400; a verified event is
\* dispatched to PaymentService.handleWebhook and answered 200.
webhookEndpoint(w, l) ==
  IF ~l.signed THEN {Ret(Out(w, l), 400)}
  ELSE handleWebhook(w, [l EXCEPT !.dispatched = TRUE])

(* ----------------------------- PaymentService -------------------------- *)

FreeIntents(w) == {i \in Intents : w.gw[i] = "none"}

NewIntent(w) == CHOOSE i \in FreeIntents(w) : \A j \in FreeIntents(w) : i <= j

createPaymentSheet(w, l) ==
  CASE l.pc = "start" ->
         {IF l.bid # TheBooking THEN Ret(Out(w, l), 404)
          ELSE IF w.lease.tenantId # l.user THEN Ret(Out(w, l), 403)
          ELSE IF w.lease.paymentStatus = "paid" THEN Ret(Out(w, l), 400)
          ELSE To(Out(w, l), "readPay")}
    [] l.pc = "readPay" ->
         {To(o, "createIntent") : o \in ReadByStatus(w, l, l.bid, "pending")}
    [] l.pc = "createIntent" ->
         IF FreeIntents(w) = {} THEN {}
         ELSE {Out([w EXCEPT !.gw[NewIntent(w)] = "open"],
                   [l EXCEPT !.pc = "savePay", !.nint = NewIntent(w)])}
    [] l.pc = "savePay" ->
         IF l.pid # NoRow
           THEN {Ret(WritePay(w, l, l.pid, [paymentIntentId |-> l.nint]), 200)}
         ELSE {Ret(Out([w EXCEPT !.pay = Append(w.pay,
                          [bookingId |-> l.bid, userId |-> l.user,
                           paymentIntentId |-> l.nint, status |-> "pending",
                           completedAt |-> -1])],
                       [l EXCEPT !.payW = @ + 1, !.pid = Len(w.pay) + 1]),
                   200)}

confirmPayment(w, l) ==
  CASE l.pc = "start" ->
         {IF w.gw[l.intent] = "none" THEN Ret(Out(w, l), 500)
          ELSE IF w.gw[l.intent] \notin {"succeeded", "refunded"}
            THEN Ret(Out(w, l), 400)
          ELSE To(Out(w, l), "readPay")}
    [] l.pc = "readPay" ->
         {IF o.l.pid = NoRow THEN Ret(o, 404)
          ELSE IF w.pay[o.l.pid].userId # l.user THEN Ret(o, 403)
          ELSE To(o, "writePay") :
            o \in {Snapshot(w, l, id) :
                     id \in FindFirst({r \in Rows(w.pay) :
                              /\ w.pay[r].bookingId = l.bid
                              /\ w.pay[r].paymentIntentId = l.intent})}}
    [] l.pc = "writePay" ->
         {To(WritePay(w, l, l.pid,
                      [status |-> "completed", completedAt |-> w.now]),
             "writeLease")}
    [] l.pc = "writeLease" ->
         {Ret(WriteLease(w, l, [status |-> "APPROVED",
                                paymentStatus |-> "paid"]), 200)}

cancelPayment(w, l) ==
  CASE l.pc = "start" ->
         {IF o.l.pid = NoRow THEN Ret(o, 404)
          ELSE IF w.pay[o.l.pid].userId # l.user THEN Ret(o, 403)
          ELSE IF o.l.pst # "pending" THEN Ret(o, 400)
          ELSE Out(o.w, [o.l EXCEPT !.pc = "gwCancel",
                                    !.bst = w.lease.status]) :
            o \in ReadByIntent(w, l, l.intent)}
    [] l.pc = "gwCancel" ->
         {Out(IF w.gw[l.intent] = "open"
                THEN [w EXCEPT !.gw[l.intent] = "canceled"] ELSE w,
              [l EXCEPT !.pc = "writePay"])}
    [] l.pc = "writePay" ->
         {IF l.bst \in {"PENDING", "APPROVED"}
            THEN To(WritePay(w, l, l.pid, [status |-> "failed"]), "writeLease")
            ELSE Ret(WritePay(w, l, l.pid, [status |-> "failed"]), 200)}
    [] l.pc = "writeLease" ->
         {Ret(WriteLease(w, l, [status |-> "REFUNDED",
                                paymentStatus |-> "failed"]), 200)}

\* Math.floor((now - completedAt) / (1000 * 60 * 60)), with time in seconds.
hoursSincePayment(age) == age \div SecondsPerHour

daysSincePayment(age) == hoursSincePayment(age) \div HoursPerDay

\* RefundDecision with the automatic refund still given at four full hours.
RefundDecision_AutoAtFour(age) ==
  IF daysSincePayment(age) > RefundWindowDays THEN "expired"
  ELSE IF hoursSincePayment(age) <= AutoRefundHours THEN "auto"
  ELSE "approval"

\* requestRefund's branch on the age of the completed payment.
RefundDecision(age) ==
  IF daysSincePayment(age) > RefundWindowDays THEN "expired"
  ELSE IF hoursSincePayment(age) < AutoRefundHours THEN "auto"
  ELSE "approval"

PendingRequests(w, b) ==
  {r \in Rows(w.req) : w.req[r].leaseId = b /\ w.req[r].status = "PENDING"}

requestRefund(w, l) ==
  CASE l.pc = "start" ->
         {IF o.l.pid = NoRow THEN Ret(o, 404)
          ELSE IF w.pay[o.l.pid].userId # l.user THEN Ret(o, 403)
          ELSE LET a == w.now - w.pay[o.l.pid].completedAt
                   d == RefundDecision(a)
                   m == Out(o.w, [o.l EXCEPT !.age = a, !.decision = d])
               IN CASE d = "expired" -> Ret(m, 400)
                    [] d = "auto" -> To(m, "gwRefund")
                    [] OTHER -> To(m, "readReq") :
            o \in ReadByStatus(w, l, l.bid, "completed")}
    [] l.pc = "gwRefund" ->
         {IF o.l.code = 500 THEN Ret(o, 500) ELSE To(o, "writePay") :
            o \in {GatewayRefund(w, l)}}
    [] l.pc = "writePay" ->
         {To(WritePay(w, l, l.pid, [status |-> "refunded"]), "writeLease")}
    [] l.pc = "writeLease" ->
         {Ret(WriteLease(w, l, [status |-> "REFUNDED",
                                paymentStatus |-> "refunded"]), 200)}
    [] l.pc = "readReq" ->
         {IF r # NoRow THEN Ret(Out(w, l), 400) ELSE To(Out(w, l), "createReq") :
            r \in FindFirst(PendingRequests(w, l.bid))}
    [] l.pc = "createReq" ->
         {Ret(o, 200) :
            o \in CreateReq(w, l, [leaseId |-> l.bid, requestedBy |-> l.user,
                                   landlordId |-> w.lease.landlordId,
                                   status |-> "PENDING"])}

processRefundRequest(w, l) ==
  CASE l.pc = "start" ->
         {IF l.rid \notin Rows(w.req) THEN Ret(Out(w, l), 404)
          ELSE IF w.req[l.rid].landlordId # l.user THEN Ret(Out(w, l), 403)
          ELSE IF w.req[l.rid].status # "PENDING" THEN Ret(Out(w, l), 400)
          ELSE IF l.approve THEN To(Out(w, l), "readPay")
          ELSE To(Out(w, l), "rejectReq")}
    [] l.pc = "readPay" ->
         {IF o.l.pid = NoRow THEN Ret(o, 404) ELSE To(o, "gwRefund") :
            o \in ReadByStatus(w, l, w.req[l.rid].leaseId, "completed")}
    [] l.pc = "gwRefund" ->
         {IF o.l.code = 500 THEN Ret(o, 500) ELSE To(o, "writePay") :
            o \in {GatewayRefund(w, l)}}
    [] l.pc = "writePay" ->
         {To(WritePay(w, l, l.pid, [status |-> "refunded"]), "writeReq")}
    [] l.pc = "writeReq" ->
         {To(WriteReq(w, l, l.rid, [status |-> "APPROVED"]), "writeLease")}
    [] l.pc = "writeLease" ->
         {Ret(WriteLease(w, l, [status |-> "REFUNDED",
                                paymentStatus |-> "refunded"]), 200)}
    [] l.pc = "rejectReq" ->
         {Ret(WriteReq(w, l, l.rid, [status |-> "REJECTED"]), 200)}

(* ------------------------------ RefundService -------------------------- *)

\* status is not given in createRefundRequest's data: the column default.
DefaultRequestStatus == "PENDING"

CompletedPayments(w, b) ==
  {r \in Rows(w.pay) : w.pay[r].bookingId = b /\ w.pay[r].status = "completed"}

createRefundRequest(w, l) ==
  CASE l.pc = "start" ->
         {IF l.bid # TheBooking THEN Ret(Out(w, l), 400)
          ELSE IF w.lease.tenantId # l.user THEN Ret(Out(w, l), 400)
          ELSE IF w.lease.status = "REFUNDED" THEN Ret(Out(w, l), 400)
          ELSE IF CompletedPayments(w, l.bid) = {} THEN Ret(Out(w, l), 400)
          ELSE To(Out(w, l), "createReq")}
    [] l.pc = "createReq" ->
         {Ret(o, 200) :
            o \in CreateReq(w, l, [leaseId |-> l.bid, requestedBy |-> l.user,
                                   landlordId |-> w.lease.landlordId,
                                   status |-> DefaultRequestStatus])}

\* approveRefund without its test of the request's status.
approveRefund_AnyStatus(w, l) ==
  CASE l.pc = "start" ->
         IF l.rid \notin Rows(w.req) THEN {Ret(Out(w, l), 400)}
         ELSE IF w.req[l.rid].landlordId # l.user THEN {Ret(Out(w, l), 400)}
         ELSE {IF o.l.pid = NoRow THEN To(o, "txn") ELSE To(o, "gwRefund") :
                 o \in ReadByStatus(w, l, w.req[l.rid].leaseId, "completed")}
    [] l.pc = "gwRefund" ->
         {IF o.l.code = 500 THEN Ret(o, 400) ELSE To(o, "txn") :
            o \in {GatewayRefund(w, l)}}
    [] l.pc = "txn" ->
         LET a == WriteReq(w, l, l.rid, [status |-> "APPROVED"])
         IN {Ret(WriteLease(a.w, a.l, [status |-> "REFUNDED",
                                       paymentStatus |-> "refunded"]), 200)}

approveRefund(w, l) ==
  CASE l.pc = "start" ->
         IF l.rid \notin Rows(w.req) THEN {Ret(Out(w, l), 400)}
         ELSE IF w.req[l.rid].landlordId # l.user THEN {Ret(Out(w, l), 400)}
         ELSE IF w.req[l.rid].status # "PENDING" THEN {Ret(Out(w, l), 400)}
         ELSE {IF o.l.pid = NoRow THEN To(o, "txn") ELSE To(o, "gwRefund") :
                 o \in ReadByStatus(w, l, w.req[l.rid].leaseId, "completed")}
    [] l.pc = "gwRefund" ->
         {IF o.l.code = 500 THEN Ret(o, 400) ELSE To(o, "txn") :
            o \in {GatewayRefund(w, l)}}
    [] l.pc = "txn" ->
         LET a == WriteReq(w, l, l.rid, [status |-> "APPROVED"])
         IN {Ret(WriteLease(a.w, a.l, [status |-> "REFUNDED",
                                       paymentStatus |-> "refunded"]), 200)}

\* rejectRefund writing the booking as an approval does.
rejectRefund_WritesBooking(w, l) ==
  CASE l.pc = "start" ->
         {IF l.rid \notin Rows(w.req) THEN Ret(Out(w, l), 400)
          ELSE IF w.req[l.rid].landlordId # l.user THEN Ret(Out(w, l), 400)
          ELSE IF w.req[l.rid].status # "PENDING" THEN Ret(Out(w, l), 400)
          ELSE To(Out(w, l), "rejectReq")}
    [] l.pc = "rejectReq" ->
         LET a == WriteReq(w, l, l.rid, [status |-> "REJECTED"])
         IN {Ret(WriteLease(a.w, a.l, [status |-> "REFUNDED",
                                       paymentStatus |-> "refunded"]), 200)}

rejectRefund(w, l) ==
  CASE l.pc = "start" ->
         {IF l.rid \notin Rows(w.req) THEN Ret(Out(w, l), 400)
          ELSE IF w.req[l.rid].landlordId # l.user THEN Ret(Out(w, l), 400)
          ELSE IF w.req[l.rid].status # "PENDING" THEN Ret(Out(w, l), 400)
          ELSE To(Out(w, l), "rejectReq")}
    [] l.pc = "rejectReq" ->
         {Ret(WriteReq(w, l, l.rid, [status |-> "REJECTED"]), 200)}

(* ------------------------------ execution ------------------------------ *)

\* The awaits that write to storage or call the gateway and let what is
\* thrown reach the caller (cancelPayment catches what
\* stripe.paymentIntents.cancel throws).
ThrowingSteps ==
  {"createIntent", "savePay", "writePay", "writeLease", "writeReq",
   "createReq", "rejectReq", "gwRefund", "txn"}

\* What the caller gets when a storage write or a gateway call throws:
\* PaymentService wraps it into AppError(..., 500), the webhook controller
\* passes it on to the error handler, the refund routes answer 400.
ThrownStatus(l) ==
  IF l.op \in {"createRefundRequest", "approveRefund", "rejectRefund"}
    THEN 400 ELSE 500

\* The await at which the request stands throws.
Throws(w, l) ==
  IF l.fault > 0 /\ l.pc \in ThrowingSteps
    THEN {Ret(Out(w, [l EXCEPT !.fault = @ - 1, !.failed = TRUE]),
              ThrownStatus(l))}
    ELSE {}

\* One await of a request as its handler runs it.
Handler(w, l) ==
  CASE l.op = "createPaymentSheet" -> createPaymentSheet(w, l)
    [] l.op = "confirmPayment" -> confirmPayment(w, l)
    [] l.op = "cancelPayment" -> cancelPayment(w, l)
    [] l.op = "requestRefund" -> requestRefund(w, l)
    [] l.op = "processRefundRequest" -> processRefundRequest(w, l)
    [] l.op = "handleWebhook" -> webhookEndpoint(w, l)
    [] l.op = "createRefundRequest" -> createRefundRequest(w, l)
    [] l.op = "approveRefund" -> approveRefund(w, l)
    [] l.op = "rejectRefund" -> rejectRefund(w, l)

\* One await of a request: every outcome of running it to its next await.
Step(w, l) == Handler(w, l) \cup Throws(w, l)

RECURSIVE Run(_, _)
\* A request handled to completion with nothing running in between.
Run(w, l) ==
  IF l.pc = "done" THEN {Out(w, l)}
  ELSE UNION {Run(o.w, o.l) : o \in Step(w, l)}

Frame(op, args) ==
  [f \in DOMAIN NewFrame |->
     IF f = "op" THEN op
     ELSE IF f \in DOMAIN args THEN args[f]
     ELSE NewFrame[f]]

\* The outcome o of worker p becomes the state; the frame of a request that
\* has returned is gone.
Install(o, p) ==
  /\ pay' = o.w.pay
  /\ lease' = o.w.lease
  /\ req' = o.w.req
  /\ gw' = o.w.gw
  /\ now' = o.w.now
  /\ fr' = [fr EXCEPT ![p] = IF o.l.pc = "done" THEN IdleFrame ELSE o.l]
  /\ calls' = calls

AllIdle == \A p \in Procs : fr[p].pc = "done"

\* Request f is handled to completion.
Handled(f) == \E o \in Run(world, f) : Install(o, 1)

\* Request f arrives at worker p while other requests may be in flight.
Begin(p, f) ==
  /\ fr[p].pc = "done"
  /\ calls < MaxCalls
  /\ fr' = [fr EXCEPT ![p] = f]
  /\ calls' = calls + 1
  /\ UNCHANGED <<pay, lease, req, gw, now>>

\* A request in flight runs to its next await.
Advance(p) == fr[p].pc # "done" /\ \E o \in Step(world, fr[p]) : Install(o, p)

CreatePaymentSheetCalls ==
  {Frame("createPaymentSheet", [bid |-> b, user |-> u]) :
     b \in BookingArgs, u \in Users}

ConfirmPaymentCalls ==
  {Frame("confirmPayment", [bid |-> b, intent |-> i, user |-> u]) :
     b \in BookingArgs, i \in Intents, u \in Users}

CancelPaymentCalls ==
  {Frame("cancelPayment", [intent |-> i, user |-> u]) :
     i \in Intents, u \in Users}

RequestRefundCalls ==
  {Frame("requestRefund", [bid |-> b, user |-> u]) :
     b \in BookingArgs, u \in Users}

ProcessRefundRequestCalls ==
  {Frame("processRefundRequest", [rid |-> r, user |-> u, approve |-> a]) :
     r \in 1 .. MaxRequests, u \in Users, a \in BOOLEAN}

CreateRefundRequestCalls ==
  {Frame("createRefundRequest", [bid |-> b, user |-> u]) :
     b \in BookingArgs, u \in Users}

ApproveRefundCalls ==
  {Frame("approveRefund", [rid |-> r, user |-> u]) :
     r \in 1 .. MaxRequests, u \in Users}

RejectRefundCalls ==
  {Frame("rejectRefund", [rid |-> r, user |-> u]) :
     r \in 1 .. MaxRequests, u \in Users}

ByTenant(C) == {f \in C : f.user = Tenant}

ByLandlord(C) == {f \in C : f.user = Landlord}

ByTenantSheet == ByTenant(CreatePaymentSheetCalls)

\* A webhook delivery.  A signed one carries an event the gateway has
\* emitted for an intent it has issued; anyone can post an unsigned one.
Delivery(e, i, sg) ==
  Frame("handleWebhook", [evt |-> e, intent |-> i, signed |-> sg])

Deliveries == {Delivery(e, i, sg) : e \in EventTypes, i \in Intents,
                                    sg \in BOOLEAN}

Deliverable(w, f) == f.signed => f.evt \in EmittedEvents(w.gw[f.intent])

(* ----------------------------- environment ----------------------------- *)

\* The customer completes the payment of an open intent at the gateway.
CustomerPays(i) ==
  /\ gw[i] = "open"
  /\ gw' = [gw EXCEPT ![i] = "succeeded"]
  /\ UNCHANGED <<pay, lease, req, now, fr, calls>>

\* The gateway cancels an open intent (expiry, dashboard).
GatewayCancels(i) ==
  /\ gw[i] = "open"
  /\ gw' = [gw EXCEPT ![i] = "canceled"]
  /\ UNCHANGED <<pay, lease, req, now, fr, calls>>

\* Time passes, to one of the instants T.
Tick(T) ==
  /\ \E t \in T : t > now /\ now' = t
  /\ UNCHANGED <<pay, lease, req, gw, fr, calls>>

Environment ==
  \/ \E i \in Intents : CustomerPays(i)
  \/ \E i \in Intents : GatewayCancels(i)
  \/ Tick(TimePoints)

(* --------------------------- specifications ---------------------------- *)

\* A booking awaiting payment: no payment row, no refund request, no intent.
Fresh ==
  [pay |-> <<>>,
   lease |-> [status |-> "PENDING", paymentStatus |-> "unpaid",
              tenantId |-> Tenant, landlordId |-> Landlord],
   req |-> <<>>,
   gw |-> [i \in Intents |-> "none"],
   now |-> 0]

StartIn(w) ==
  /\ pay = w.pay
  /\ lease = w.lease
  /\ req = w.req
  /\ gw = w.gw
  /\ now = w.now
  /\ fr = [p \in Procs |-> IdleFrame]
  /\ calls = 0

Init == StartIn(Fresh)

\* One request at a time, each handled to completion.
CreatePaymentSheet == \E f \in CreatePaymentSheetCalls : AllIdle /\ Handled(f)

ConfirmPayment == \E f \in ConfirmPaymentCalls : AllIdle /\ Handled(f)

CancelPayment == \E f \in CancelPaymentCalls : AllIdle /\ Handled(f)

RequestRefund == \E f \in RequestRefundCalls : AllIdle /\ Handled(f)

ProcessRefundRequest == \E f \in ProcessRefundRequestCalls : AllIdle /\ Handled(f)

HandleWebhook ==
  \E f \in Deliveries : AllIdle /\ Deliverable(world, f) /\ Handled(f)

CreateRefundRequest == \E f \in CreateRefundRequestCalls : AllIdle /\ Handled(f)

ApproveRefund == \E f \in ApproveRefundCalls : AllIdle /\ Handled(f)

RejectRefund == \E f \in RejectRefundCalls : AllIdle /\ Handled(f)

\* PaymentService and the webhook endpoint.
Next ==
  \/ CreatePaymentSheet
  \/ ConfirmPayment
  \/ CancelPayment
  \/ RequestRefund
  \/ ProcessRefundRequest
  \/ HandleWebhook
  \/ Environment

Spec == Init /\ [][Next]_vars

\* The same with the routes of RefundService.
NextAll == Next \/ CreateRefundRequest \/ ApproveRefund \/ RejectRefund

SpecAll == Init /\ [][NextAll]_vars

\* States Spec reaches, from which the interleaved runs and the runs over
\* the refund policy's ages start.
\* Fresh; createPaymentSheet by the tenant:
SheetCreated ==
  [Fresh EXCEPT
     !.pay = <<[bookingId |-> TheBooking, userId |-> Tenant,
                paymentIntentId |-> 1, status |-> "pending",
                completedAt |-> -1]>>,
     !.gw[1] = "open"]

\* ... the customer pays; confirmPayment (or payment_intent.succeeded):
Paid ==
  [SheetCreated EXCEPT
     !.pay[1].status = "completed", !.pay[1].completedAt = 0,
     !.lease.status = "APPROVED", !.lease.paymentStatus = "paid",
     !.gw[1] = "succeeded"]

\* ... four hours pass; requestRefund by the tenant:
RefundRequested ==
  [Paid EXCEPT
     !.req = <<[leaseId |-> TheBooking, requestedBy |-> Tenant,
                landlordId |-> Landlord, status |-> "PENDING"]>>,
     !.now = Hours(AutoRefundHours)]

\* Paid; createRefundRequest of RefundService by the tenant, at once:
RefundAsked ==
  [Paid EXCEPT
     !.req = <<[leaseId |-> TheBooking, requestedBy |-> Tenant,
                landlordId |-> Landlord, status |-> DefaultRequestStatus]>>]

SetupStates == {Fresh, SheetCreated, Paid, RefundRequested, RefundAsked}

\* Two workers, interleaved at every await.  The requests are those that
\* pass their handler's authorization: the tenant's, the landlord's
\* decisions, and signed deliveries.
BeginPayment ==
  \E p \in Procs :
    \E f \in ByTenant(CreatePaymentSheetCalls \cup ConfirmPaymentCalls
                        \cup CancelPaymentCalls \cup RequestRefundCalls)
              \cup ByLandlord(ProcessRefundRequestCalls) : Begin(p, f)

BeginRefund ==
  \E p \in Procs :
    \E f \in ByTenant(CreateRefundRequestCalls)
              \cup ByLandlord(ApproveRefundCalls \cup RejectRefundCalls) :
      Begin(p, f)

BeginWebhook ==
  \E p \in Procs, f \in Deliveries :
    f.signed /\ Deliverable(world, f) /\ Begin(p, f)

Await == \E p \in Procs : Advance(p)

NextConc == BeginPayment \/ BeginRefund \/ BeginWebhook \/ Await \/ Environment

InitConc == \E w \in SetupStates : StartIn(w)

SpecConc == InitConc /\ [][NextConc]_vars

\* requestRefund and the landlord's decision at every age around the
\* policy's thresholds, for a payment completed at 0.
NextPolicy ==
  \/ RequestRefund
  \/ ProcessRefundRequest
  \/ CreateRefundRequest
  \/ ApproveRefund
  \/ RejectRefund
  \/ Tick(PolicyTimes)

SpecPolicy == StartIn(Paid) /\ [][NextPolicy]_vars

\* Request f with one of its storage writes or gateway calls allowed to
\* throw.
MayFail(f) == [f EXCEPT !.fault = 1]

\* PaymentService and the webhook endpoint, one request at a time, where a
\* storage write or a gateway call of a request may throw.
CreatePaymentSheetMayFail ==
  \E f \in CreatePaymentSheetCalls : AllIdle /\ Handled(MayFail(f))

ConfirmPaymentMayFail ==
  \E f \in ConfirmPaymentCalls : AllIdle /\ Handled(MayFail(f))

CancelPaymentMayFail ==
  \E f \in CancelPaymentCalls : AllIdle /\ Handled(MayFail(f))

RequestRefundMayFail ==
  \E f \in RequestRefundCalls : AllIdle /\ Handled(MayFail(f))

ProcessRefundRequestMayFail ==
  \E f \in ProcessRefundRequestCalls : AllIdle /\ Handled(MayFail(f))

HandleWebhookMayFail ==
  \E f \in Deliveries :
    AllIdle /\ Deliverable(world, f) /\ Handled(MayFail(f))

NextFault ==
  \/ CreatePaymentSheetMayFail
  \/ ConfirmPaymentMayFail
  \/ CancelPaymentMayFail
  \/ RequestRefundMayFail
  \/ ProcessRefundRequestMayFail
  \/ HandleWebhookMayFail
  \/ Environment

SpecFault == Init /\ [][NextFault]_vars

\* The setup states are states of Spec.
AtSheetCreated == world = SheetCreated

AtPaid == world = Paid

AtRefundRequested == world = RefundRequested

AtRefundAsked == world = RefundAsked

(* ------------------------------- claims -------------------------------- *)

ActiveStates == {"pending", "processing", "requires_action"}

TerminalStates == {"completed", "failed", "canceled", "refunded"}

\* The signed delivery of event e for intent i.
Signed(e, i) == Delivery(e, i, TRUE)

\* C1: after every completed operation the booking is APPROVED only when
\* paid, and REFUNDED only when its payment is refunded or canceled.
C1_BookingConsistent ==
  /\ lease.status = "APPROVED" => lease.paymentStatus = "paid"
  /\ lease.status = "REFUNDED" => lease.paymentStatus \in {"refunded", "canceled"}

\* n deliveries of f one after another, each handled to completion: the
\* writes they made in total, whether each returned 200, and whether each
\* delivery after the first left every record as it was.
RECURSIVE Redeliver(_, _, _)
Redeliver(w, f, n) ==
  IF n = 0
    THEN {[w |-> w, payW |-> 0, leaseW |-> 0, ok |-> TRUE, quiet |-> TRUE]}
    ELSE UNION {
           {[w |-> o.w, payW |-> t.payW + o.l.payW,
             leaseW |-> t.leaseW + o.l.leaseW,
             ok |-> t.ok /\ o.l.code = 200,
             quiet |-> t.quiet /\ (n = 1 \/ (/\ o.w.pay = t.w.pay
                                            /\ o.w.lease = t.w.lease))] :
              o \in Run(t.w, f)} :
           t \in Redeliver(w, f, n - 1)}

\* C2: payment_intent.succeeded for a pending row, delivered n >= 1 times in
\* a row, writes the row to completed once and the booking to APPROVED/paid
\* once; every delivery returns 200 and those after the first change
\* nothing.
C2_SucceededIdempotent ==
  \A i \in Intents, r \in Rows(pay), n \in 1 .. MaxDeliveries :
    ( /\ pay[r].paymentIntentId = i
      /\ pay[r].status = "pending"
      /\ Deliverable(world, Signed("payment_intent.succeeded", i)) )
    => \A t \in Redeliver(world, Signed("payment_intent.succeeded", i), n) :
         /\ t.payW = 1
         /\ t.leaseW = 1
         /\ t.ok
         /\ t.quiet
         /\ t.w.pay[r].status = "completed"
         /\ t.w.lease.status = "APPROVED"
         /\ t.w.lease.paymentStatus = "paid"

\* C2's case: a pending row whose intent has succeeded at the gateway, and
\* MaxDeliveries deliveries of the event that complete it.
C2_Witness ==
  \E i \in Intents, r \in Rows(pay) :
    /\ pay[r].paymentIntentId = i
    /\ pay[r].status = "pending"
    /\ Deliverable(world, Signed("payment_intent.succeeded", i))
    /\ \E t \in Redeliver(world, Signed("payment_intent.succeeded", i),
                          MaxDeliveries) :
         t.payW = 1 /\ t.w.pay[r].status = "completed"

\* C4: payment_intent.payment_failed for a completed row leaves the row
\* completed and the booking as it was.
C4_FailedAfterCompletedRejected ==
  \A i \in Intents, r \in Rows(pay) :
    ( /\ pay[r].paymentIntentId = i
      /\ pay[r].status = "completed"
      /\ Deliverable(world, Signed("payment_intent.payment_failed", i)) )
    => \A o \in Run(world, Signed("payment_intent.payment_failed", i)) :
         o.w.pay[r].status = "completed" /\ o.w.lease = lease

\* C5: createPaymentSheet fails with a conflict and touches no payment row
\* while the booking has an active row; once all its rows are terminal it
\* succeeds and adds a pending row.
C5_SecondSheetConflict ==
  \A f \in ByTenantSheet :
    \A o \in Run(world, f) :
      /\ (\E r \in Rows(pay) : pay[r].status \in ActiveStates)
           => o.l.code # 200 /\ o.w.pay = pay
      /\ ( /\ pay # <<>>
           /\ \A r \in Rows(pay) : pay[r].status \in TerminalStates )
           => /\ o.l.code = 200
              /\ Len(o.w.pay) = Len(pay) + 1
              /\ o.w.pay[Len(o.w.pay)].status = "pending"

\* C6: the booking never has two rows in pending, processing or
\* requires_action.
C6_OneActiveRow ==
  Cardinality({r \in Rows(pay) : pay[r].status \in ActiveStates}) <= 1

\* The requests that complete a payment: confirmPayment and the handler of
\* payment_intent.succeeded.
CompletesPayment(l) ==
  \/ l.op = "confirmPayment"
  \/ l.op = "handleWebhook" /\ l.evt = "payment_intent.succeeded"

\* C3: of two concurrent requests completing the same payment row, only one
\* writes the row; never have both written it.
C3_OneWriter ==
  \A p, q \in Procs :
    ( /\ p # q
      /\ fr[p].pc # "done" /\ fr[q].pc # "done"
      /\ CompletesPayment(fr[p]) /\ CompletesPayment(fr[q])
      /\ fr[p].pid = fr[q].pid )
    => ~(fr[p].payW >= 1 /\ fr[q].payW >= 1)

\* The decision the refund policy gives for a payment of the given age.
ClaimedDecision(age) ==
  IF age > Days(RefundWindowDays) THEN "expired"
  ELSE IF age < Hours(AutoRefundHours) THEN "auto"
  ELSE "approval"

\* C7: requestRefund decides by the age in seconds of the completed payment:
\* automatic under 4 hours, approval from 4 hours to 7 days, and an error
\* (window expired) beyond 7 days.
C7_DecisionByAge ==
  \A f \in ByTenant(RequestRefundCalls) :
    \A o \in Run(world, f) :
      o.l.pid # NoRow
        => /\ o.l.age = now - pay[o.l.pid].completedAt
           /\ o.l.decision = ClaimedDecision(o.l.age)
           /\ o.l.decision = "expired" => o.l.code = 400

\* C8: requestRefund by the payer of a completed payment less than 4 hours
\* old makes one gateway refund, returns the automatic refund, and leaves
\* the row refunded and the booking REFUNDED/refunded, creating no request.
C8_AutoRefund ==
  \A f \in ByTenant(RequestRefundCalls) :
    \A o \in Run(world, f) :
      ( /\ o.l.pid # NoRow
        /\ pay[o.l.pid].userId = f.user
        /\ now - pay[o.l.pid].completedAt < Hours(AutoRefundHours) )
      => /\ o.l.code = 200
         /\ o.l.decision = "auto"
         /\ o.l.refunds = 1
         /\ o.w.pay[o.l.pid].status = "refunded"
         /\ o.w.lease.status = "REFUNDED"
         /\ o.w.lease.paymentStatus = "refunded"
         /\ o.w.req = req

\* C9: on the approval path (completed payment 4 hours to 7 days old, no
\* PENDING request for the booking) requestRefund creates exactly one
\* PENDING request, makes no gateway refund, and leaves the payment rows and
\* the booking as they were.
C9_ApprovalPathFrame ==
  \A f \in ByTenant(RequestRefundCalls) :
    \A o \in Run(world, f) :
      ( /\ o.l.pid # NoRow
        /\ pay[o.l.pid].userId = f.user
        /\ now - pay[o.l.pid].completedAt >= Hours(AutoRefundHours)
        /\ now - pay[o.l.pid].completedAt <= Days(RefundWindowDays)
        /\ PendingRequests(world, f.bid) = {} )
      => /\ o.l.code = 200
         /\ o.l.decision = "approval"
         /\ o.l.refunds = 0
         /\ o.l.reqW = 1
         /\ o.w.req = Append(req, o.w.req[Len(o.w.req)])
         /\ o.w.req[Len(o.w.req)].status = "PENDING"
         /\ o.w.req[Len(o.w.req)].leaseId = f.bid
         /\ o.w.pay = pay
         /\ o.w.lease = lease
         /\ o.w.gw = gw

\* C9's case: a completed payment at least 4 hours old with no PENDING
\* request, for which requestRefund creates the request.
C9_Witness ==
  \E f \in ByTenant(RequestRefundCalls) :
    \E o \in Run(world, f) :
      /\ o.l.pid # NoRow
      /\ now - pay[o.l.pid].completedAt >= Hours(AutoRefundHours)
      /\ PendingRequests(world, f.bid) = {}
      /\ o.l.decision = "approval"
      /\ Cardinality(PendingRequests(o.w, f.bid)) = 1

\* C10: the booking never has two PENDING refund requests.
C10_OnePendingRequest ==
  Cardinality(PendingRequests(world, TheBooking)) <= 1

\* The landlord's decisions on a refund request, by either service.
RejectDecisions ==
  {f \in ProcessRefundRequestCalls : ~f.approve} \cup RejectRefundCalls

ApproveDecisions ==
  {f \in ProcessRefundRequestCalls : f.approve} \cup ApproveRefundCalls

\* Request f decides a PENDING refund request as that request's landlord.
DecidesPending(f) ==
  /\ f.rid \in Rows(req)
  /\ req[f.rid].status = "PENDING"
  /\ req[f.rid].landlordId = f.user

\* C11: the landlord's rejection of a PENDING refund request sets the
\* request to REJECTED and changes nothing else: no gateway refund, payment
\* rows and booking as they were.
C11_RejectFrame ==
  \A f \in RejectDecisions :
    DecidesPending(f)
      => \A o \in Run(world, f) :
           /\ o.l.code = 200
           /\ o.l.refunds = 0
           /\ o.w.req = [req EXCEPT ![f.rid].status = "REJECTED"]
           /\ o.w.pay = pay
           /\ o.w.lease = lease
           /\ o.w.gw = gw

\* C11's case: a PENDING request that both services' rejections set to
\* REJECTED.
C11_Witness ==
  \E r \in Rows(req) :
    /\ req[r].status = "PENDING"
    /\ \A f \in RejectDecisions :
         (f.rid = r /\ f.user = req[r].landlordId)
           => \E o \in Run(world, f) : o.w.req[r].status = "REJECTED"

\* C12: after a successful approval of a PENDING refund request by its
\* landlord the request is APPROVED, the booking's completed payment row is
\* refunded and the booking is REFUNDED/refunded.
C12_ApprovalRefunds ==
  \A f \in ApproveDecisions :
    DecidesPending(f)
      => \A o \in Run(world, f) :
           o.l.code = 200
             => /\ o.w.req[f.rid].status = "APPROVED"
                /\ \E r \in CompletedPayments(world, req[f.rid].leaseId) :
                     o.w.pay[r].status = "refunded"
                /\ o.w.lease.status = "REFUNDED"
                /\ o.w.lease.paymentStatus = "refunded"

\* C13: a decision on a refund request that is not PENDING, or by a user
\* who is not the request's landlord, fails with no gateway refund and with
\* requests, payment rows and booking as they were.
C13_BadDecisionRejected ==
  \A f \in ApproveDecisions \cup RejectDecisions :
    ( /\ f.rid \in Rows(req)
      /\ (req[f.rid].status # "PENDING" \/ req[f.rid].landlordId # f.user) )
    => \A o \in Run(world, f) :
         /\ o.l.code \in {400, 403}
         /\ o.l.refunds = 0
         /\ o.w = world

\* C13's case: a request already decided, which its landlord decides again,
\* and a PENDING request, which the tenant tries to decide; all fail.
C13_Witness ==
  \E r, q \in Rows(req) :
    /\ req[r].status \in {"APPROVED", "REJECTED"}
    /\ req[q].status = "PENDING"
    /\ \A f \in ApproveDecisions \cup RejectDecisions :
         ( \/ f.rid = r /\ f.user = req[r].landlordId
           \/ f.rid = q /\ f.user # req[q].landlordId )
         => \E o \in Run(world, f) : o.l.code \in {400, 403}

\* C14: a webhook request whose signature is missing or does not verify is
\* answered with an error before the event is dispatched: handleWebhook is
\* not invoked, no record is read and none is modified.
C14_UnsignedRejected ==
  \A f \in Deliveries :
    ~f.signed
      => \A o \in Run(world, f) :
           /\ o.l.code = 400
           /\ ~o.l.dispatched
           /\ o.l.reads = 0
           /\ o.l.payW = 0 /\ o.l.leaseW = 0 /\ o.l.reqW = 0
           /\ o.w = world

\* C14's case: an unsigned payment_intent.succeeded for a pending row, which
\* the same event would complete were it signed; the request is refused.
C14_Witness ==
  \E i \in Intents, r \in Rows(pay) :
    /\ pay[r].paymentIntentId = i
    /\ pay[r].status = "pending"
    /\ \E o \in Run(world, Signed("payment_intent.succeeded", i)) :
         o.w.pay[r].status = "completed"
    /\ \E o \in Run(world, Delivery("payment_intent.succeeded", i, FALSE)) :
         o.l.code = 400 /\ o.w = world

\* C15: every webhook request whose signature verifies is answered 200,
\* whatever its event and the state of the records, also when a storage
\* write of its handler throws; only a signature failure is answered
\* otherwise.
C15_SignedAlwaysAcknowledged ==
  \A f \in Deliveries :
    Deliverable(world, f)
      => \A o \in Run(world, MayFail(f)) : (o.l.code = 200) <=> f.signed

HandledEvents == EventTypes \ {"customer.created"}

\* C16: a signed event of a handled type whose intent matches no payment
\* row, and a signed event of a type that is not handled, is answered 200
\* and leaves payment rows, booking and refund requests as they were.
C16_UntrackedAcknowledged ==
  \A f \in Deliveries :
    ( /\ f.signed
      /\ Deliverable(world, f)
      /\ \/ f.evt \notin HandledEvents
         \/ \A r \in Rows(pay) : pay[r].paymentIntentId # f.intent )
    => \A o \in Run(world, f) : o.l.code = 200 /\ o.w = world

\* C16's case: the gateway has emitted events for an intent that no payment
\* row holds any more, and a delivery of each is acknowledged.
C16_Witness ==
  \E i \in Intents :
    /\ gw[i] = "succeeded"
    /\ pay # <<>>
    /\ \A r \in Rows(pay) : pay[r].paymentIntentId # i
    /\ \A e \in EmittedEvents(gw[i]) :
         \E o \in Run(world, Signed(e, i)) : o.l.code = 200 /\ o.w = world

\* The operations that write a payment row and the booking or a request.
WritingCalls ==
  ConfirmPaymentCalls \cup CancelPaymentCalls \cup RequestRefundCalls
    \cup ProcessRefundRequestCalls
    \cup {f \in Deliveries : f.signed /\ Deliverable(world, f)}

\* C17: when a storage write or a gateway call of confirmPayment,
\* cancelPayment, requestRefund, processRefundRequest or a webhook handler
\* throws, the operation returns an error and payment rows, booking and
\* refund requests are what they were before it started.
C17_FailureLeavesRecords ==
  \A f \in WritingCalls :
    \A o \in Run(world, MayFail(f)) :
      o.l.failed
        => /\ o.l.code # 200
           /\ o.w.pay = pay
           /\ o.w.lease = lease
           /\ o.w.req = req

\* C18: a signed charge.refunded event for an intent that a payment row
\* holds leaves that row refunded and the booking REFUNDED/refunded.
C18_RefundedEventOutcome ==
  \A i \in Intents, r \in Rows(pay) :
    ( /\ pay[r].paymentIntentId = i
      /\ Deliverable(world, Signed("charge.refunded", i)) )
    => \A o \in Run(world, Signed("charge.refunded", i)) :
         /\ o.l.code = 200
         /\ o.w.pay[r].status = "refunded"
         /\ o.w.lease.status = "REFUNDED"
         /\ o.w.lease.paymentStatus = "refunded"

\* C19: the cancellation of a pending payment row (payment_intent.canceled,
\* or cancelPayment by the payer) leaves the row canceled and the booking's
\* paymentStatus canceled; the booking's status becomes REFUNDED if it was
\* PENDING or APPROVED and stays what it was otherwise.
C19_CancelOutcome ==
  \A i \in Intents, r \in Rows(pay) :
    \A f \in {g \in ByTenant(CancelPaymentCalls) : g.intent = i}
              \cup {Signed("payment_intent.canceled", i)} :
      ( /\ pay[r].paymentIntentId = i
        /\ pay[r].status = "pending"
        /\ pay[r].userId = Tenant
        /\ Deliverable(world, f) )
      => \A o \in Run(world, f) :
           /\ o.l.code = 200
           /\ o.w.pay[r].status = "canceled"
           /\ o.w.lease.paymentStatus = "canceled"
           /\ o.w.lease.status =
                IF lease.status \in {"PENDING", "APPROVED"}
                  THEN "REFUNDED" ELSE lease.status

\* C20: a signed payment_intent.payment_failed event that moves a row in
\* pending, processing or requires_action to failed leaves the booking's
\* paymentStatus failed and its status as it was.
C20_FailedOutcome ==
  \A i \in Intents, r \in Rows(pay) :
    ( /\ pay[r].paymentIntentId = i
      /\ pay[r].status \in ActiveStates
      /\ Deliverable(world, Signed("payment_intent.payment_failed", i)) )
    => \A o \in Run(world, Signed("payment_intent.payment_failed", i)) :
         o.w.pay[r].status = "failed"
           => /\ o.w.lease.paymentStatus = "failed"
              /\ o.w.lease.status = lease.status

\* The later operations and events for the charge of intent i: a retried
\* confirmPayment, cancelPayment, and the payment_intent events.
LaterForCharge(i) ==
  {f \in ByTenant(ConfirmPaymentCalls \cup CancelPaymentCalls) :
     f.intent = i}
    \cup {Signed(e, i) : e \in HandledEvents \ {"charge.refunded"}}

\* C21: a refunded payment row stays refunded: no later operation or event
\* for its charge changes its state, and each such event is answered 200
\* and changes nothing.
C21_RefundedIsTerminal ==
  \A i \in Intents, r \in Rows(pay) :
    (pay[r].paymentIntentId = i /\ pay[r].status = "refunded")
      => \A f \in LaterForCharge(i) :
           Deliverable(world, f)
             => \A o \in Run(world, f) :
                  /\ o.w.pay[r].status = "refunded"
                  /\ f.op = "handleWebhook"
                       => o.l.code = 200 /\ o.w = world

\* C22: payment_intent.succeeded for a row in pending, processing or
\* requires_action leaves the row completed and the booking APPROVED/paid.
C22_SucceededFromActive ==
  \A i \in Intents, r \in Rows(pay) :
    ( /\ pay[r].paymentIntentId = i
      /\ pay[r].status \in ActiveStates
      /\ Deliverable(world, Signed("payment_intent.succeeded", i)) )
    => \A o \in Run(world, Signed("payment_intent.succeeded", i)) :
         /\ o.w.pay[r].status = "completed"
         /\ o.w.lease.status = "APPROVED"
         /\ o.w.lease.paymentStatus = "paid"

\* Outcome o of call f reached its gateway call in the present state, and
\* the gateway refuses it: the intent is already canceled, or the charge is
\* already refunded.
GatewayRefuses(f, o) ==
  CASE f.op = "cancelPayment" ->
         /\ o.l.pid # NoRow
         /\ pay[o.l.pid].userId = f.user
         /\ o.l.pst = "pending"
         /\ gw[f.intent] = "canceled"
    [] f.op = "requestRefund" ->
         /\ o.l.decision = "auto"
         /\ gw[o.l.pint] = "refunded"
    [] f.op = "processRefundRequest" ->
         /\ DecidesPending(f)
         /\ f.approve
         /\ o.l.pid # NoRow
         /\ gw[o.l.pint] = "refunded"
    [] OTHER -> FALSE

\* C23: when the gateway refuses a cancel or refund call because the intent
\* is already canceled or the charge already refunded, cancelPayment, the
\* auto-refund and the approval still answer 200 and write their outcome to
\* the payment row.
C23_GatewayRefusalTolerated ==
  \A f \in ByTenant(CancelPaymentCalls \cup RequestRefundCalls)
            \cup ByLandlord(ProcessRefundRequestCalls) :
    \A o \in Run(world, f) :
      GatewayRefuses(f, o)
        => /\ o.l.code = 200
           /\ o.w.pay[o.l.pid].status =
                IF f.op = "cancelPayment" THEN "failed" ELSE "refunded"

\* Every call of the payment and refund core.
CoreCalls ==
  WritingCalls \cup CreatePaymentSheetCalls \cup CreateRefundRequestCalls
    \cup ApproveRefundCalls \cup RejectRefundCalls

\* C24: an operation that changes the booking's status or paymentStatus has
\* also changed the state of one of the booking's payment rows.
C24_BookingFollowsPayment ==
  \A f \in CoreCalls :
    \A o \in Run(world, f) :
      ( \/ o.w.lease.status # lease.status
        \/ o.w.lease.paymentStatus # lease.paymentStatus )
      => \E r \in Rows(pay) : o.w.pay[r].status # pay[r].status

\* C25: a request writes the booking only after it has written the payment
\* row: no step of a request in flight writes the booking while the request
\* has not yet written a payment row, so the booking never shows an outcome
\* that the payment row does not show yet.
C25_PaymentBeforeBooking ==
  \A p \in Procs :
    fr[p].pc # "done"
      => \A o \in Step(world, fr[p]) :
           o.l.leaseW > fr[p].leaseW => fr[p].payW >= 1

\* C26: a retried confirmPayment and a later payment_intent.succeeded for a
\* completed payment row leave its completedAt as it was.
C26_CompletedAtKept ==
  \A i \in Intents, r \in Rows(pay) :
    (pay[r].paymentIntentId = i /\ pay[r].status = "completed")
      => \A f \in {g \in ByTenant(ConfirmPaymentCalls) : g.intent = i}
                   \cup {Signed("payment_intent.succeeded", i)} :
           \A o \in Run(world, f) :
             o.w.pay[r].completedAt = pay[r].completedAt

\* The requests that refund a charge at the gateway.
IssuesRefund(l) ==
  \/ l.op \in {"requestRefund", "approveRefund"}
  \/ l.op = "processRefundRequest" /\ l.approve

C28_CancelKeepsCompleted ==
  \A p \in Procs :
    (fr[p].pc # "done" /\ fr[p].op = "cancelPayment")
      => \A o \in Step(world, fr[p]) :
           o.l.payW > fr[p].payW => pay[fr[p].pid].status # "completed"

\* C29: every intent that createPaymentSheet has issued is the intent of a
\* payment row, so that a later payment_intent.succeeded for it finds the
\* row.
C29_IntentResolvable ==
  \A i \in Intents :
    gw[i] # "none" => \E r \in Rows(pay) : pay[r].paymentIntentId = i

\* The requests that reject a refund request.
Rejects(l) ==
  \/ l.op = "rejectRefund"
  \/ l.op = "processRefundRequest" /\ ~l.approve

\* C30: of an approval and a rejection of one PENDING refund request only
\* one takes effect: a rejection in flight never writes REJECTED over an
\* approval, which has refunded the charge and set the booking REFUNDED.
C30_RejectNotOverApproval ==
  \A p \in Procs :
    (fr[p].pc # "done" /\ Rejects(fr[p]))
      => \A o \in Step(world, fr[p]) :
           o.l.reqW > fr[p].reqW => req[fr[p].rid].status # "APPROVED"

====
